---- MODULE Spec2Model ----
(***************************************************************************)
(* Model of select_residue_water_residue_combined.py: water-bridged        *)
(* residue interactions between two domains of a molecular session.        *)
(*                                                                         *)
(* Lengths are whole Angstroms.  All atoms lie on the x axis, so that the  *)
(* Euclidean distance the code computes is an exact integer.  The half     *)
(* threshold 7.0 / 2.0 = 3.5 is kept exact by comparing 2 * d with 7.      *)
(***************************************************************************)
EXTENDS Integers, Sequences, FiniteSets, TLC

VARIABLES
    atoms,              \* the session's atoms, in the toolkit's enumeration order
    hbgeom,             \* the domain atoms whose angle geometry find_pairs accepts
    registry,           \* the toolkit's named selections: name -> set of atom ids
    distance_objects,   \* the distance objects created by cmd.distance
    display,            \* what the calls have shown, and the dash_width setting
    pc,                 \* "idle", "loop", "returned" or "raised"
    calls,              \* number of calls of the entry point so far
    domainA, domainB,   \* the arguments of the current call
    water_indices,      \* cmd.index result of the current call
    wi,                 \* position of the water loop in water_indices
    interaction_list,   \* the current call's records
    hbond_id, polar_contact_id,
    hbonds_A, hbonds_B, polar_contacts_A, polar_contacts_B,  \* last iteration's locals
    pi_calls            \* calls of process_interactions made by the last iteration

vars == <<atoms, hbgeom, registry, distance_objects, display, pc, calls,
          domainA, domainB, water_indices, wi, interaction_list,
          hbond_id, polar_contact_id, hbonds_A, hbonds_B,
          polar_contacts_A, polar_contacts_B, pi_calls>>

(* ---------------------------- bounds ---------------------------------- *)
MaxDist  == 4      \* domain atoms N and O sit 1..MaxDist from the first water
MaxCalls == 2      \* calls of the entry point in one session
MaxIndex == 3      \* atom index of the atom of the object loaded first

(* ------------------------ program constants --------------------------- *)
max_total_distance == 7          \* 7.0
hbond_distance_cutoff_x2 == 7    \* twice the 3.5 of hbond_distance_cutoff
total_distance_gate == 7         \* the 7.0 written out in process_interactions

(* --------------------------- the session ------------------------------ *)
Atom(model, index, chain, resi, resn, name, alt, x) ==
    [model |-> model, index |-> index, chain |-> chain, resi |-> resi,
     resn |-> resn, name |-> name, alt |-> alt, coord |-> <<x, 0, 0>>]

Id(a) == <<a.model, a.index>>

\* The water of object "prot" sits at the origin, chain A to its left, chain B
\* to its right.  Object "prot": residue SER 10 of chain A (atoms N and OG),
\* the water, then residues ASP 20 and LYS 21 of chain B (of LYS its atom NZ,
\* or the carbon CE instead).
ProtAtoms(dN, dO, lys) ==
    << Atom("prot", 1, "A", "10", "SER", "N",  "", 0 - dN),
       Atom("prot", 2, "A", "10", "SER", "OG", "", 0 - 3),
       Atom("prot", 3, "W", "901", "HOH", "O", "", 0),
       Atom("prot", 4, "B", "20", "ASP", "O",  "", dO),
       Atom("prot", 5, "B", "21", "LYS", lys, "", 3) >>

\* Object "aux", loaded before "prot": nothing, one water next to the water of
\* "prot", or one far glycine oxygen.
AuxChoices ==
    { << >> }
    \cup { << Atom("aux", i, "W", "900", "HOH", "O", "", 1) >> : i \in 1..MaxIndex }
    \cup { << Atom("aux", i, "C", "30", "GLY", "O", "", 6) >> : i \in 1..MaxIndex }

Sessions ==
    { aux \o ProtAtoms(dN, dO, lys) :
        aux \in AuxChoices, dN \in 1..MaxDist, dO \in 1..MaxDist, lys \in {"NZ", "CE"} }

\* The domain atoms whose neighbours pass the angle test of find_pairs: any of
\* the backbone N of SER 10 and the O of ASP 20.
HBGeomChoices == SUBSET { <<"prot", 1>>, <<"prot", 4>> }

AtomSet == { atoms[i] : i \in 1..Len(atoms) }

\* The atoms of a set, as the toolkit lists them (object order, then atom order).
GetModel(S) == SelectSeq(atoms, LAMBDA a : a \in S)

(* --------------------------- geometry --------------------------------- *)
ISqrt(n) == CHOOSE r \in 0..n : r * r = n

distance_between_coords(c1, c2) ==
    ISqrt((c1[1] - c2[1]) * (c1[1] - c2[1]) +
          (c1[2] - c2[2]) * (c1[2] - c2[2]) +
          (c1[3] - c2[3]) * (c1[3] - c2[3]))

(* --------------------------- selections ------------------------------- *)
\* The domain selection strings of the calls; any other string is malformed.
DomainChain == [s \in {"chain A", "chain B", "chain Z"} |->
                   CASE s = "chain A" -> "A" [] s = "chain B" -> "B" [] OTHER -> "Z"]

WellFormed(sele) == sele \in DOMAIN DomainChain

Domain(sele) == { a \in AtomSet : a.chain = DomainChain[sele] }

\* 'S within 3.5 of (T)'
Within(S, T) ==
    { a \in S : \E b \in T :
        2 * distance_between_coords(a.coord, b.coord) <= max_total_distance }

AllWaters == { a \in AtomSet : a.resn = "HOH" }

\* '(%s and index %d and name O and alt "")'
WaterSele(water_obj, water_idx) ==
    { a \in AtomSet : a.model = water_obj /\ a.index = water_idx
                      /\ a.name = "O" /\ a.alt = "" }

\* cmd.get_atom_coords of a selection of one atom
GetAtomCoords(sele) == (CHOOSE a \in sele : TRUE).coord

TempNames == {"all_waters", "water_near_A", "water_near_B", "water_bridge"}
VizNames  == {"interacting_residues_domain1", "interacting_residues_domain2",
              "interacting_waters"}

\* cmd.select(name, S): defines or redefines a named selection.
Select(reg, name, S) ==
    [n \in (DOMAIN reg) \cup {name} |-> IF n = name THEN { Id(a) : a \in S } ELSE reg[n]]

\* cmd.delete of each of the names
Delete(reg, names) == [n \in (DOMAIN reg) \ names |-> reg[n]]

Named(reg, name) == { a \in AtomSet : Id(a) \in reg[name] }

(* ------------------------- contact finders ---------------------------- *)
\* All pairs of two lists, first list outermost.
PairsSeq(s1, s2) ==
    [k \in 1..(Len(s1) * Len(s2)) |->
        << s1[((k - 1) \div Len(s2)) + 1], s2[((k - 1) % Len(s2)) + 1] >>]

\* The angle test of cmd.find_pairs(mode=1): it looks at the neighbours of
\* either atom of the pair, whatever the order of the two selections.
AngleOk(a, b) == Id(a) \in hbgeom \/ Id(b) \in hbgeom

\* cmd.find_pairs(S1, S2, mode=1, cutoff, angle): pairs ((model, index), (model, index)).
FindPairs(S1, S2, cutoff_x2) ==
    LET all == PairsSeq(GetModel(S1), GetModel(S2))
        hit == SelectSeq(all, LAMBDA p :
                   /\ p[1] # p[2]
                   /\ 2 * distance_between_coords(p[1].coord, p[2].coord) <= cutoff_x2
                   /\ AngleOk(p[1], p[2]))
    IN  [k \in 1..Len(hit) |-> << Id(hit[k][1]), Id(hit[k][2]) >>]

\* '(%s and (name N,O) and not resn HOH)'
HBondSide(domain_sele) ==
    { a \in Domain(domain_sele) : a.name \in {"N", "O"} /\ a.resn # "HOH" }

find_hydrogen_bonds(domain_sele, water_sele, distance_cutoff_x2) ==
    LET hbonds1 == FindPairs(HBondSide(domain_sele), water_sele, distance_cutoff_x2)
        hbonds2 == FindPairs(water_sele, HBondSide(domain_sele), distance_cutoff_x2)
    IN  hbonds1 \o hbonds2

\* name N*,O*
PolarName(name) == name \in {"N", "NZ", "O", "OG"}

find_polar_contacts(domain_sele, water_sele, distance_cutoff_x2) ==
    LET polar_atoms == GetModel({ a \in Domain(domain_sele) :
                                    PolarName(a.name) /\ a.alt = "" /\ a.resn # "HOH" })
        water_atom  == GetModel({ a \in water_sele : a.name = "O" /\ a.alt = "" })[1]
        near == SelectSeq(polar_atoms, LAMBDA a :
                   2 * distance_between_coords(a.coord, water_atom.coord)
                       <= distance_cutoff_x2)
    IN  [k \in 1..Len(near) |->
            << Id(near[k]), Id(water_atom),
               distance_between_coords(near[k].coord, water_atom.coord) >>]

(* ----------------------- process_interactions ------------------------- *)
\* cmd.get_model('index %d' % atom_idx).atom : every object's atom of that index
IndexLookup(atom_idx) == GetModel({ a \in AtomSet : a.index = atom_idx })

ResidueInfo(atom) == << atom.model, atom.chain, atom.resi, atom.resn >>

\* res_distances[info] = (atom_idx, dist)
Retain(res_distances, info, atom_idx, dist) ==
    [k \in (DOMAIN res_distances) \cup {info} |->
        IF k = info THEN << atom_idx, dist >> ELSE res_distances[k]]

\* One of the two loops over a contact list: the dict it leaves (its keys are
\* the residue set).
RECURSIVE ResidueDistances(_, _, _)
ResidueDistances(contacts, water_coords, res_distances) ==
    IF contacts = << >> THEN res_distances
    ELSE LET contact  == Head(contacts)
             atom_idx == contact[1][2]
             atom     == IndexLookup(atom_idx)[1]
             dist     == distance_between_coords(atom.coord, water_coords)
         IN  ResidueDistances(Tail(contacts), water_coords,
                 IF atom.resn = "HOH" THEN res_distances
                 ELSE Retain(res_distances, ResidueInfo(atom), atom_idx, dist))

\* The format of the resA and resB fields: model / chain (backquote) resi / resn.
\* "|" stands for the backquote.
ResidueString(info) == << info[1], "/", info[2], "|", info[3], "/", info[4] >>

\* 'model %s and chain %s and resi %s'
ResidueSele(info) ==
    { a \in AtomSet : a.model = info[1] /\ a.chain = info[2] /\ a.resi = info[3] }

TypeName(interaction_type) ==
    IF interaction_type = "hbond" THEN "Hydrogen Bond" ELSE "Polar Contact"

\* if total_distance <= 7.0
KeepsAlways(total_distance) == TRUE
Keeps(total_distance) == total_distance <= total_distance_gate

InteractionRecord(resA_info, resB_info, water_idx, interaction_type, distA, distB) ==
    LET total_distance == distA + distB
    IN  [resA |-> ResidueString(resA_info), resB |-> ResidueString(resB_info),
         water |-> water_idx, type |-> TypeName(interaction_type),
         distA |-> distA, distB |-> distB, total_distance |-> total_distance]

\* order: the iteration order of the two residue sets.  st: the interaction
\* list, the selection registry and the distance objects the call works on.
process_interactions(contacts_A, contacts_B, water_obj, water_idx, interaction_id, interaction_type, water_coords, order, st) ==
    LET resA_distances == ResidueDistances(contacts_A, water_coords, << >>)
        resB_distances == ResidueDistances(contacts_B, water_coords, << >>)
        resA_set == DOMAIN resA_distances
        resB_set == DOMAIN resB_distances
    IN  IF resA_set = {} \/ resB_set = {}
        THEN [id |-> interaction_id, list |-> st.list, reg |-> st.reg, dobjs |-> st.dobjs]
        ELSE
        LET id    == interaction_id + 1
            pairs == PairsSeq(SelectSeq(order, LAMBDA k : k \in resA_set),
                              SelectSeq(order, LAMBDA k : k \in resB_set))
            kept  == SelectSeq(pairs, LAMBDA p :
                         Keeps(resA_distances[p[1]][2] + resB_distances[p[2]][2]))
            K     == 1..Len(kept)
            recs  == [k \in K |->
                        InteractionRecord(kept[k][1], kept[k][2], water_idx,
                            interaction_type,
                            resA_distances[kept[k][1]][2], resB_distances[kept[k][2]][2])]
            selA  == UNION { { Id(a) : a \in ResidueSele(kept[k][1]) } : k \in K }
            selB  == UNION { { Id(a) : a \in ResidueSele(kept[k][2]) } : k \in K }
            selW  == IF kept = << >> THEN {}
                     ELSE { Id(a) : a \in WaterSele(water_obj, water_idx) }
            dist  == UNION { { [name |-> << interaction_type, id, "A" >>,
                                atom |-> resA_distances[kept[k][1]][1],
                                water |-> << water_obj, water_idx >>],
                               [name |-> << interaction_type, id, "B" >>,
                                atom |-> resB_distances[kept[k][2]][1],
                                water |-> << water_obj, water_idx >>] } : k \in K }
        IN  [id    |-> id,
             list  |-> st.list \o recs,
             reg   |-> [st.reg EXCEPT
                          !["interacting_residues_domain1"] = @ \cup selA,
                          !["interacting_residues_domain2"] = @ \cup selB,
                          !["interacting_waters"] = @ \cup selW],
             dobjs |-> st.dobjs \cup dist]

(* ------------------- the classifier of the water loop ----------------- *)
\* if not hbonds_X: polar_contacts_X = find_polar_contacts(...)
PolarSearchAlways(hbonds, domain_sele, water_sele) ==
    find_polar_contacts(domain_sele, water_sele, max_total_distance)
PolarSearch(hbonds, domain_sele, water_sele) ==
    IF hbonds = << >>
    THEN find_polar_contacts(domain_sele, water_sele, max_total_distance)
    ELSE << >>

Or(x, y) == IF x # << >> THEN x ELSE y

\* The if / elif / elif of the loop body: the calls of process_interactions it makes.
ClassifyMixedAsHbond(hA, hB, pA, pB) ==
    IF hA # << >> /\ hB # << >>
    THEN << [A |-> hA, B |-> hB, type |-> "hbond"] >>
    ELSE IF (hA # << >> /\ pB # << >>) \/ (pA # << >> /\ hB # << >>)
    THEN << [A |-> Or(hA, pA), B |-> Or(hB, pB), type |-> "hbond"] >>
    ELSE IF pA # << >> /\ pB # << >>
    THEN << [A |-> pA, B |-> pB, type |-> "polar_contact"] >>
    ELSE << >>
Classify(hA, hB, pA, pB) ==
    IF hA # << >> /\ hB # << >>
    THEN << [A |-> hA, B |-> hB, type |-> "hbond"] >>
    ELSE IF (hA # << >> /\ pB # << >>) \/ (pA # << >> /\ hB # << >>)
    THEN << [A |-> Or(hA, pA), B |-> Or(hB, pB), type |-> "polar_contact"] >>
    ELSE IF pA # << >> /\ pB # << >>
    THEN << [A |-> pA, B |-> pB, type |-> "polar_contact"] >>
    ELSE << >>

\* The calls made for one water, each threading its own counter.
RECURSIVE RunCalls(_, _, _, _, _, _)
RunCalls(todo, water_obj, water_idx, water_coords, order, st) ==
    IF todo = << >> THEN st
    ELSE LET c == Head(todo)
             r == process_interactions(c.A, c.B, water_obj, water_idx,
                      IF c.type = "hbond" THEN st.hbond_id ELSE st.polar_contact_id,
                      c.type, water_coords, order, st)
         IN  RunCalls(Tail(todo), water_obj, water_idx, water_coords, order,
                 [list |-> r.list, reg |-> r.reg, dobjs |-> r.dobjs,
                  hbond_id |-> IF c.type = "hbond" THEN r.id ELSE st.hbond_id,
                  polar_contact_id |->
                      IF c.type = "hbond" THEN st.polar_contact_id ELSE r.id])

\* The residue keys the calls iterate over.
Involved(todo, water_coords) ==
    UNION { (DOMAIN ResidueDistances(todo[k].A, water_coords, << >>))
            \cup (DOMAIN ResidueDistances(todo[k].B, water_coords, << >>)) :
            k \in 1..Len(todo) }

Perms(S) == { f \in [1..Cardinality(S) -> S] :
                \A i, j \in 1..Cardinality(S) : f[i] = f[j] => i = j }

(* ----------------------------- actions -------------------------------- *)
DomainPairs == { <<"chain A", "chain B">>, <<"chain A", "chain Z">>, <<"(", "chain B">> }

Init ==
    /\ atoms \in Sessions
    /\ hbgeom \in HBGeomChoices
    /\ registry = << >>
    /\ distance_objects = {}
    /\ display = [sticks |-> {}, spheres |-> {}, dash_width |-> 25]
    /\ pc = "idle"
    /\ calls = 0
    /\ domainA = "" /\ domainB = ""
    /\ water_indices = << >>
    /\ wi = 1
    /\ interaction_list = << >>
    /\ hbond_id = 0 /\ polar_contact_id = 0
    /\ hbonds_A = << >> /\ hbonds_B = << >>
    /\ polar_contacts_A = << >> /\ polar_contacts_B = << >>
    /\ pi_calls = 0

\* The four cmd.select of the temporary selections.
SelectTemps(reg, dA, dB) ==
    LET r1 == Select(reg, "all_waters", AllWaters)
        r2 == Select(r1, "water_near_A", Within(Named(r1, "all_waters"), Domain(dA)))
        r3 == Select(r2, "water_near_B", Within(Named(r2, "all_waters"), Domain(dB)))
    IN  Select(r3, "water_bridge",
               Named(r3, "water_near_A") \cap Named(r3, "water_near_B"))

\* cmd.index('water_bridge and name O and alt ""')
WaterIndices(reg) ==
    LET found == GetModel({ a \in Named(reg, "water_bridge") : a.name = "O" /\ a.alt = "" })
    IN  [k \in 1..Len(found) |-> Id(found[k])]

\* The four cmd.delete before the early return.
CleanupEarlyForgets(reg) == Delete(reg, {"all_waters", "water_near_A", "water_near_B"})
CleanupEarly(reg) == Delete(reg, TempNames)

\* The four cmd.delete at the end of the function.
Cleanup(reg) == Delete(reg, TempNames)

CanCall == pc # "loop" /\ calls < MaxCalls

ResetLocals ==
    /\ hbonds_A' = << >> /\ hbonds_B' = << >>
    /\ polar_contacts_A' = << >> /\ polar_contacts_B' = << >>
    /\ pi_calls' = 0
    /\ hbond_id' = 0 /\ polar_contact_id' = 0
    /\ interaction_list' = << >>
    /\ wi' = 1

\* A malformed selection string: cmd.select raises where the string is first used.
CallMalformed(dA, dB) ==
    /\ CanCall
    /\ ~ (WellFormed(dA) /\ WellFormed(dB))
    /\ calls' = calls + 1
    /\ domainA' = dA /\ domainB' = dB
    /\ registry' =
         LET r1 == Select(registry, "all_waters", AllWaters)
         IN  IF WellFormed(dA)
             THEN Select(r1, "water_near_A", Within(Named(r1, "all_waters"), Domain(dA)))
             ELSE r1
    /\ water_indices' = << >>
    /\ pc' = "raised"
    /\ ResetLocals
    /\ UNCHANGED << atoms, hbgeom, distance_objects, display >>

\* No bridging water: the early return.
CallEmpty(dA, dB) ==
    /\ CanCall
    /\ WellFormed(dA) /\ WellFormed(dB)
    /\ LET reg == SelectTemps(registry, dA, dB)
       IN  /\ WaterIndices(reg) = << >>
           /\ registry' = CleanupEarly(reg)
    /\ calls' = calls + 1
    /\ domainA' = dA /\ domainB' = dB
    /\ water_indices' = << >>
    /\ pc' = "returned"
    /\ ResetLocals
    /\ UNCHANGED << atoms, hbgeom, distance_objects, display >>

\* Bridging waters found: the setup before the water loop.
CallBridged(dA, dB) ==
    /\ CanCall
    /\ WellFormed(dA) /\ WellFormed(dB)
    /\ LET reg == SelectTemps(registry, dA, dB)
       IN  /\ WaterIndices(reg) # << >>
           /\ water_indices' = WaterIndices(reg)
           /\ registry' = Select(Select(Select(reg,
                              "interacting_residues_domain1", {}),
                              "interacting_residues_domain2", {}),
                              "interacting_waters", {})
    /\ calls' = calls + 1
    /\ domainA' = dA /\ domainB' = dB
    /\ pc' = "loop"
    /\ ResetLocals
    /\ UNCHANGED << atoms, hbgeom, distance_objects, display >>

\* One iteration of the water loop.
ProcessWater ==
    /\ pc = "loop"
    /\ wi <= Len(water_indices)
    /\ LET water_obj    == water_indices[wi][1]
           water_idx    == water_indices[wi][2]
           water_sele   == WaterSele(water_obj, water_idx)
           water_coords == GetAtomCoords(water_sele)
           hA == find_hydrogen_bonds(domainA, water_sele, hbond_distance_cutoff_x2)
           hB == find_hydrogen_bonds(domainB, water_sele, hbond_distance_cutoff_x2)
           pA == PolarSearch(hA, domainA, water_sele)
           pB == PolarSearch(hB, domainB, water_sele)
           todo == Classify(hA, hB, pA, pB)
       IN  \E order \in Perms(Involved(todo, water_coords)) :
             LET r == RunCalls(todo, water_obj, water_idx, water_coords, order,
                          [list |-> interaction_list, reg |-> registry,
                           dobjs |-> distance_objects, hbond_id |-> hbond_id,
                           polar_contact_id |-> polar_contact_id])
             IN  /\ interaction_list' = r.list
                 /\ registry' = r.reg
                 /\ distance_objects' = r.dobjs
                 /\ hbond_id' = r.hbond_id
                 /\ polar_contact_id' = r.polar_contact_id
                 /\ hbonds_A' = hA /\ hbonds_B' = hB
                 /\ polar_contacts_A' = pA /\ polar_contacts_B' = pB
                 /\ pi_calls' = Len(todo)
    /\ wi' = wi + 1
    /\ UNCHANGED << atoms, hbgeom, display, pc, calls, domainA, domainB, water_indices >>

\* After the loop: visualisation, report, cleanup.
Finish ==
    /\ pc = "loop"
    /\ wi > Len(water_indices)
    /\ display' =
         IF interaction_list # << >>
         THEN [sticks |-> display.sticks
                            \cup registry["interacting_residues_domain1"]
                            \cup registry["interacting_residues_domain2"],
               spheres |-> display.spheres \cup registry["interacting_waters"],
               dash_width |-> 15]
         ELSE display
    /\ registry' = Cleanup(registry)
    /\ pc' = "returned"
    /\ UNCHANGED << atoms, hbgeom, distance_objects, calls, domainA, domainB,
                    water_indices, wi, interaction_list, hbond_id, polar_contact_id,
                    hbonds_A, hbonds_B, polar_contacts_A, polar_contacts_B, pi_calls >>

Next ==
    \/ \E d \in DomainPairs : CallMalformed(d[1], d[2])
    \/ \E d \in DomainPairs : CallEmpty(d[1], d[2])
    \/ \E d \in DomainPairs : CallBridged(d[1], d[2])
    \/ ProcessWater
    \/ Finish

Spec == Init /\ [][Next]_vars

(* ------------------------------ claims -------------------------------- *)
\* A step of the water loop, and the records it appends.
WaterStep == pc = "loop" /\ wi' = wi + 1

NewRecords == SubSeq(interaction_list', Len(interaction_list) + 1, Len(interaction_list'))

Records(list) == { list[k] : k \in 1..Len(list) }

\* The contact lists the last iteration handed to process_interactions.
UsedA == Or(hbonds_A, polar_contacts_A)
UsedB == Or(hbonds_B, polar_contacts_B)

SeqRange(s) == { s[k] : k \in 1..Len(s) }

\* C1: every record of interaction_list has total_distance = distA + distB and
\* total_distance <= 7.0, in every state of the run, whatever the waters and
\* the contacts on either side.
C1_TotalDistance ==
    \A r \in Records(interaction_list) :
        r.total_distance = r.distA + r.distB /\ r.total_distance <= 7

\* The loop has appended at least two records, one of them exactly at 7.0.
C1_Witness ==
    /\ pc = "loop"
    /\ Len(interaction_list) >= 2
    /\ \E r \in Records(interaction_list) : r.total_distance = 7

\* C2: a water with a hydrogen bond on both sides gets no 'Polar Contact'
\* record; a water with a hydrogen bond on exactly one side gets only
\* 'Polar Contact' records.
C2_CategoryPriority ==
    [][WaterStep =>
         /\ (hbonds_A' # << >> /\ hbonds_B' # << >>)
                => \A r \in Records(NewRecords) : r.type # "Polar Contact"
         /\ ((hbonds_A' # << >>) # (hbonds_B' # << >>))
                => \A r \in Records(NewRecords) : r.type = "Polar Contact"]_vars

\* After the first water: hydrogen bond on side A only, and records emitted.
C2_Witness ==
    /\ pc = "loop" /\ wi = 2
    /\ hbonds_A # << >> /\ hbonds_B = << >>
    /\ interaction_list # << >>
    /\ \A r \in Records(interaction_list) : r.type = "Polar Contact"

\* C7: process_interactions is called at most once per water, and exactly when
\* both sides found something; the polar-contact search of a side yields
\* contacts only when that side's hydrogen-bond search returned nothing; a
\* water with nothing on some side adds no record.
C7_Classifier ==
    [][WaterStep =>
         LET foundA == hbonds_A' # << >> \/ polar_contacts_A' # << >>
             foundB == hbonds_B' # << >> \/ polar_contacts_B' # << >>
         IN  /\ pi_calls' = (IF foundA /\ foundB THEN 1 ELSE 0)
             /\ polar_contacts_A' # << >> => hbonds_A' = << >>
             /\ polar_contacts_B' # << >> => hbonds_B' = << >>
             /\ ~ (foundA /\ foundB) => interaction_list' = interaction_list]_vars

\* A water with contacts on side A and none on side B went through the loop.
C7_Witness ==
    /\ pc = "loop" /\ wi > 1
    /\ polar_contacts_A # << >> /\ hbonds_B = << >> /\ polar_contacts_B = << >>
    /\ pi_calls = 0

\* A water with a hydrogen bond on side B and a polar contact on side A.
C7_WitnessMixed ==
    /\ pc = "loop" /\ wi > 1
    /\ hbonds_A = << >> /\ polar_contacts_A # << >> /\ hbonds_B # << >>
    /\ pi_calls = 1

\* C10: when a call has returned, none of the four temporary selections is
\* defined in the registry, whatever calls came before it.
C10_TempsDeleted ==
    pc = "returned" => (DOMAIN registry) \cap TempNames = {}

\* The second call of the session returned early.
C10_Witness ==
    /\ pc = "returned" /\ water_indices = << >> /\ calls = 2
    /\ (DOMAIN registry) \cap TempNames = {}

\* The water the step is about.
StepWaterCoords == GetAtomCoords(WaterSele(water_indices[wi][1], water_indices[wi][2]))

\* The least distance to the water among the contact atoms of one residue.
MinDist(contacts, res, water_coords) ==
    LET ds == { distance_between_coords(IndexLookup(c[1][2])[1].coord, water_coords) :
                  c \in { x \in SeqRange(contacts) :
                            /\ IndexLookup(x[1][2])[1].resn # "HOH"
                            /\ ResidueString(ResidueInfo(IndexLookup(x[1][2])[1])) = res } }
    IN  CHOOSE d \in ds : \A e \in ds : d <= e

\* C3: the distance a record carries for a residue is the least atom-to-water
\* distance among that residue's contact atoms on that side, whatever the
\* order of the contact list.
C3_ClosestAtom ==
    [][(WaterStep /\ pi_calls' = 1) =>
         \A r \in Records(NewRecords) :
             /\ r.distA = MinDist(Or(hbonds_A', polar_contacts_A'), r.resA, StepWaterCoords)
             /\ r.distB = MinDist(Or(hbonds_B', polar_contacts_B'), r.resB, StepWaterCoords)]_vars

\* The pairs of the cross product of the two residue sets whose retained
\* distances sum to at most 7.0.
Qualifying(cA, cB, water_coords) ==
    LET dA == ResidueDistances(cA, water_coords, << >>)
        dB == ResidueDistances(cB, water_coords, << >>)
    IN  { p \in (DOMAIN dA) \X (DOMAIN dB) : dA[p[1]][2] + dB[p[2]][2] <= 7 }

Triple(r) == << r.resA, r.resB, r.water >>

NoTwoOfATriple(list) ==
    \A i, j \in 1..Len(list) : Triple(list[i]) = Triple(list[j]) => i = j

\* The records of one classified water are one per qualifying pair of the
\* cross product.
CrossProductExact ==
    [][(WaterStep /\ pi_calls' = 1) =>
         LET want == Qualifying(Or(hbonds_A', polar_contacts_A'),
                                Or(hbonds_B', polar_contacts_B'), StepWaterCoords)
         IN  /\ Len(NewRecords) = Cardinality(want)
             /\ { << r.resA, r.resB >> : r \in Records(NewRecords) }
                  = { << ResidueString(p[1]), ResidueString(p[2]) >> : p \in want }]_vars

\* C4: the records of one classified water are exactly one per qualifying pair
\* of the cross product, and interaction_list never holds two records with the
\* same (resA, resB, water) triple.
C4_CrossProduct ==
    [][(WaterStep /\ pi_calls' = 1) =>
         LET want == Qualifying(Or(hbonds_A', polar_contacts_A'),
                                Or(hbonds_B', polar_contacts_B'), StepWaterCoords)
         IN  /\ Len(NewRecords) = Cardinality(want)
             /\ { << r.resA, r.resB >> : r \in Records(NewRecords) }
                  = { << ResidueString(p[1]), ResidueString(p[2]) >> : p \in want }
             /\ NoTwoOfATriple(interaction_list')]_vars

Populated(name) == name \in DOMAIN registry /\ registry[name] # {}

\* C5: after a call that found no bridging water has returned, there is no
\* record and none of the three visualisation selections is populated, also
\* when an earlier call of the session found interactions.
C5_EmptyBridge ==
    (pc = "returned" /\ water_indices = << >>) =>
        /\ interaction_list = << >>
        /\ \A name \in VizNames : ~ Populated(name)

\* Some lookup 'index N' of the last call of process_interactions did not
\* resolve to exactly one atom.
AmbiguousLookup ==
    \E c \in SeqRange(UsedA) \cup SeqRange(UsedB) : Len(IndexLookup(c[1][2])) # 1

\* C6: a water step in which a lookup resolves to zero or several atoms stops
\* the analysis with a failure and appends no record.
C6_AmbiguousFatal ==
    [][(WaterStep /\ pi_calls' = 1 /\ AmbiguousLookup') =>
         (pc' = "raised" /\ interaction_list' = interaction_list)]_vars

\* C8: for every contact handed to process_interactions, the atom resolved
\* from contact[0] is an atom of that side's domain and not a solvent atom.
C8_NoSolventSkip ==
    pi_calls = 1 =>
        /\ \A c \in SeqRange(UsedA) :
              /\ IndexLookup(c[1][2])[1].resn # "HOH"
              /\ IndexLookup(c[1][2])[1] \in Domain(domainA)
        /\ \A c \in SeqRange(UsedB) :
              /\ IndexLookup(c[1][2])[1].resn # "HOH"
              /\ IndexLookup(c[1][2])[1] \in Domain(domainB)

\* C9: the identifiers never decrease, a water step raises them by one in all
\* exactly when the water is classified, and the distance objects made for
\* one water carry one identifier value.
C9_IdPerClassifiedWater ==
    [][WaterStep =>
         /\ hbond_id' >= hbond_id /\ polar_contact_id' >= polar_contact_id
         /\ (hbond_id' + polar_contact_id') - (hbond_id + polar_contact_id) = pi_calls'
         /\ \A d1, d2 \in distance_objects' \ distance_objects :
               d1.name[2] = d2.name[2]]_vars

====
